---------------------------- MODULE Spec2Model ----------------------------
(***************************************************************************)
(* lsoph: src/lsoph/ui/detail_screen.py.                                   *)
(*                                                                         *)
(* DetailScreen.on_mount builds the event-history table of one FileInfo.   *)
(* The model follows the method statement by statement: the set-up of the  *)
(* table (header, columns, debug log), the empty-history return, one loop  *)
(* iteration per event, the final focus, and the except clause that wraps  *)
(* the whole body.                                                         *)
(*                                                                         *)
(* Text is a sequence of one-character strings; a bytes object is a        *)
(* sequence of records [b |-> ...], so that encoding and decoding are      *)
(* conversions between two different kinds of value.                       *)
(***************************************************************************)
EXTENDS Integers, Sequences, FiniteSets, TLC

(***************************************************************************)
(* Bounds of the model.                                                    *)
(***************************************************************************)
MaxHistory == 3      \* longest event history explored
MaxDetails == 2      \* most entries in one event's details dict
LongLen == 101       \* length of the long text used for type / detail values

(***************************************************************************)
(* Literals of the program.                                                *)
(***************************************************************************)
HeaderWidth == 100   \* short_path(self.file_info.path, 100)
DetailsWidth == 100  \* short_path(details_str.encode(...), 100)
TsColumnWidth == 12
EventColumnWidth == 12
ResultColumnWidth == 6

NoHistoryText == <<"N", "o", " ", "e", "v", "e", "n", "t", " ", "h", "i", "s", "t", "o", "r", "y", " ", "r", "e", "c", "o", "r", "d", "e", "d", " ", "f", "o", "r", " ", "t", "h", "i", "s", " ", "f", "i", "l", "e", ".">>
ErrorLoadingPrefix == <<"E", "r", "r", "o", "r", " ", "l", "o", "a", "d", "i", "n", "g", " ", "d", "e", "t", "a", "i", "l", "s", ":", " ">>
NotifyText == <<"E", "r", "r", "o", "r", " ", "l", "o", "a", "d", "i", "n", "g", " ", "d", "e", "t", "a", "i", "l", "s", ".">>
HeaderLead == <<"D", "e", "t", "a", "i", "l", "s", " ", "f", "o", "r", ":", " ">>
HeaderStatusLead == <<" ", "|", " ", "S", "t", "a", "t", "u", "s", ":", " ">>
OkText == <<"O", "K">>
FailText == <<"F", "A", "I", "L">>

\* The keys the first details loop leaves out (lines 130-141).
ExcludedKeys ==
    { <<"s","y","s","c","a","l","l">>, <<"t","y","p","e">>,
      <<"s","u","c","c","e","s","s">>, <<"t","s">>,
      <<"e","r","r","o","r","_","m","s","g">>,
      <<"t","a","r","g","e","t","_","p","a","t","h">>,
      <<"s","o","u","r","c","e","_","p","a","t","h">>,
      <<"r","e","n","a","m","e","d","_","t","o">>,
      <<"r","e","n","a","m","e","d","_","f","r","o","m">> }

\* The keys of the second details loop, in its order (lines 149-154).
PathKeys ==
    << <<"t","a","r","g","e","t","_","p","a","t","h">>,
       <<"s","o","u","r","c","e","_","p","a","t","h">>,
       <<"r","e","n","a","m","e","d","_","t","o">>,
       <<"r","e","n","a","m","e","d","_","f","r","o","m">> >>

ErrorNameKey == <<"e","r","r","o","r","_","n","a","m","e">>
ErrorKey == <<"E","R","R","O","R">>

(***************************************************************************)
(* Text helpers.                                                           *)
(***************************************************************************)
Rep(c, n) == [i \in 1..n |-> c]

Digits == <<"0", "1", "2", "3", "4", "5", "6", "7", "8", "9">>
DigitChar(d) == Digits[d + 1]
DigitVal(c) == CHOOSE d \in 0..9 : Digits[d + 1] = c
Pad2(n) == <<DigitChar(n \div 10), DigitChar(n % 10)>>
Pad3(n) == <<DigitChar(n \div 100), DigitChar((n \div 10) % 10), DigitChar(n % 10)>>

LowerCase == <<"a","b","c","d","e","f","g","h","i","j","k","l","m",
               "n","o","p","q","r","s","t","u","v","w","x","y","z">>
UpperCase == <<"A","B","C","D","E","F","G","H","I","J","K","L","M",
               "N","O","P","Q","R","S","T","U","V","W","X","Y","Z">>

\* str.upper() on one character, then on a text.
UpperChar(c) ==
    IF \E i \in 1..26 : LowerCase[i] = c
    THEN UpperCase[CHOOSE i \in 1..26 : LowerCase[i] = c]
    ELSE c
Upper(t) == [i \in 1..Len(t) |-> UpperChar(t[i])]

\* needle in hay (Python's "in" on str).
Contains(hay, needle) ==
    \E i \in 0..(Len(hay) - Len(needle)) :
        SubSeq(hay, i + 1, i + Len(needle)) = needle

RECURSIVE JoinTexts(_, _)
\* sep.join(parts)
JoinTexts(parts, sep) ==
    IF parts = <<>> THEN <<>>
    ELSE IF Len(parts) = 1 THEN parts[1]
    ELSE parts[1] \o sep \o JoinTexts(Tail(parts), sep)

(***************************************************************************)
(* Python values.  Every value is a record of one shape:                   *)
(*   kind  "absent" (key missing), "none", "bool", "int", "float", "str",  *)
(*         "bytes" or "text" (rich Text)                                   *)
(*   b     the boolean of a bool                                           *)
(*   neg, int, frac   sign, integer digits and six fraction digits of a    *)
(*         number                                                          *)
(*   s     the characters of a str / Text                                  *)
(*   raw   the bytes of a bytes object                                     *)
(***************************************************************************)
Blank == [kind |-> "absent", b |-> FALSE, neg |-> FALSE, int |-> <<>>,
          frac |-> <<>>, s |-> <<>>, raw |-> <<>>]
Absent == Blank
PyNone == [Blank EXCEPT !.kind = "none"]
PyBool(x) == [Blank EXCEPT !.kind = "bool", !.b = x]
PyInt(neg, ds) == [Blank EXCEPT !.kind = "int", !.neg = neg, !.int = ds]
PyFloat(neg, ds, fr) ==
    [Blank EXCEPT !.kind = "float", !.neg = neg, !.int = ds, !.frac = fr]
PyStr(t) == [Blank EXCEPT !.kind = "str", !.s = t]
PyBytes(bs) == [Blank EXCEPT !.kind = "bytes", !.raw = bs]
RichText(t) == [Blank EXCEPT !.kind = "text", !.s = t]

Byte(c) == [b |-> c]
AsciiBytes(t) == [i \in 1..Len(t) |-> Byte(t[i])]
InvalidByte == Byte("x80")
Surrogate == "udc80"       \* the lone surrogate surrogateescape gives for 0x80

\* dict.get(key, default) for a key the event record carries as a field.
GetOr(v, default) == IF v.kind = "absent" THEN default ELSE v

IsZeroNumber(v) ==
    /\ \A i \in 1..Len(v.int) : v.int[i] = "0"
    /\ \A i \in 1..Len(v.frac) : v.frac[i] = "0"

\* bool(v), as "not success" and "if error_name" use it.
Truthy(v) ==
    CASE v.kind = "none" -> FALSE
      [] v.kind = "bool" -> v.b
      [] v.kind \in {"int", "float"} -> ~IsZeroNumber(v)
      [] v.kind = "str" -> v.s # <<>>
      [] v.kind = "bytes" -> v.raw # <<>>
      [] OTHER -> TRUE

(***************************************************************************)
(* The timestamp cell (lines 95-104).                                      *)
(***************************************************************************)
RECURSIVE IncDigits(_)
\* The digits of n + 1.
IncDigits(ds) ==
    IF ds = <<>> THEN <<"1">>
    ELSE IF ds[Len(ds)] = "9"
         THEN IncDigits(SubSeq(ds, 1, Len(ds) - 1)) \o <<"0">>
         ELSE SubSeq(ds, 1, Len(ds) - 1) \o <<DigitChar(DigitVal(ds[Len(ds)]) + 1)>>

RECURSIVE DigitsMod(_, _)
\* The number with digits ds, modulo m.
DigitsMod(ds, m) ==
    IF ds = <<>> THEN 0
    ELSE (DigitsMod(SubSeq(ds, 1, Len(ds) - 1), m) * 10 + DigitVal(ds[Len(ds)])) % m

\* a <= b for two digit texts without leading zeros.
DigitsLE(a, b) ==
    \/ Len(a) < Len(b)
    \/ /\ Len(a) = Len(b)
       /\ \/ a = b
          \/ \E i \in 1..Len(a) :
                /\ SubSeq(a, 1, i - 1) = SubSeq(b, 1, i - 1)
                /\ DigitVal(a[i]) < DigitVal(b[i])

\* The fraction digits of a number as micro-seconds (an int has none).
Micros(v) ==
    IF v.frac = <<>> THEN 0
    ELSE DigitVal(v.frac[1]) * 100000 + DigitVal(v.frac[2]) * 10000
         + DigitVal(v.frac[3]) * 1000 + DigitVal(v.frac[4]) * 100
         + DigitVal(v.frac[5]) * 10 + DigitVal(v.frac[6])

\* f"{ts_raw:.3f}" (line 96): a number is rounded to three decimals; a str
\* has no format code 'f' (ValueError); None and bytes take no format
\* string at all (TypeError).
Format3f(v) ==
    CASE v.kind \in {"int", "float"} ->
            LET ms == (Micros(v) + 500) \div 1000
                whole == IF ms = 1000 THEN IncDigits(v.int) ELSE v.int
            IN  [exc |-> "none",
                 text |-> (IF v.neg THEN <<"-">> ELSE <<>>) \o whole
                          \o <<".">> \o Pad3(ms % 1000)]
      [] v.kind = "bool" ->
            [exc |-> "none",
             text |-> (IF v.b THEN <<"1">> ELSE <<"0">>) \o <<".", "0", "0", "0">>]
      [] v.kind = "str" -> [exc |-> "ValueError", text |-> <<>>]
      [] OTHER -> [exc |-> "TypeError", text |-> <<>>]

\* isinstance(ts_raw, (int, float)) and ts_raw > 0 (line 98).
IsPositiveNumber(v) ==
    \/ v.kind \in {"int", "float"} /\ ~v.neg /\ ~IsZeroNumber(v)
    \/ v.kind = "bool" /\ v.b

\* Last second datetime can hold (9999-12-31 23:59:59) and the largest time_t.
MaxDatetimeSeconds == <<"2","5","3","4","0","2","3","0","0","7","9","9">>
MaxTimeT == <<"9","2","2","3","3","7","2","0","3","6","8","5","4","7","7","5","8","0","7">>

\* datetime.datetime.fromtimestamp(ts_raw).strftime("%H:%M:%S.%f") (lines
\* 99-100) for a positive number, tz seconds east of UTC: a year past 9999
\* is a ValueError (OSError further out, caught alike), a value past time_t
\* an OverflowError.
FromTimestamp(v, tz) ==
    LET secs == IF v.kind = "bool" THEN <<"1">> ELSE v.int
    IN  IF ~DigitsLE(secs, MaxTimeT) THEN [exc |-> "OverflowError", text |-> <<>>]
        ELSE IF ~DigitsLE(secs, MaxDatetimeSeconds)
             THEN [exc |-> "ValueError", text |-> <<>>]
        ELSE LET day == (DigitsMod(secs, 86400) + tz) % 86400
                 us == Micros(v)
             IN  [exc |-> "none",
                  text |-> Pad2(day \div 3600) \o <<":">> \o Pad2((day \div 60) % 60)
                           \o <<":">> \o Pad2(day % 60) \o <<".">>
                           \o Pad3(us \div 1000) \o Pad3(us % 1000)]

\* Lines 95-104.  exc is an exception that leaves the loop body; warned says
\* that the inner except clause logged a warning.
TimestampCell(event, tz) ==
    LET ts_raw == GetOr(event.ts, PyInt(FALSE, <<"0">>))
        ts_str == Format3f(ts_raw)
    IN  IF ts_str.exc # "none"
        THEN [exc |-> ts_str.exc, text |-> <<>>, warned |-> FALSE]
        ELSE IF ~IsPositiveNumber(ts_raw)
        THEN [exc |-> "none", text |-> ts_str.text, warned |-> FALSE]
        ELSE LET conv == FromTimestamp(ts_raw, tz)
             IN  CASE conv.exc = "none" ->
                        [exc |-> "none",
                         text |-> SubSeq(conv.text, 1, Len(conv.text) - 3),
                         warned |-> FALSE]
                   [] conv.exc \in {"TypeError", "ValueError", "OSError"} ->
                        [exc |-> "none", text |-> ts_str.text, warned |-> TRUE]
                   [] OTHER ->
                        [exc |-> conv.exc, text |-> <<>>, warned |-> FALSE]

(***************************************************************************)
(* The event cell and the result cell (lines 106-123).                     *)
(***************************************************************************)
\* str(v) for the values an event carries under "type".
PyStrOf(v) ==
    CASE v.kind = "str" -> v.s
      [] v.kind = "int" -> (IF v.neg THEN <<"-">> ELSE <<>>) \o v.int
      [] v.kind = "none" -> <<"N", "o", "n", "e">>
      [] v.kind = "bool" -> IF v.b THEN <<"T", "r", "u", "e">>
                            ELSE <<"F", "a", "l", "s", "e">>
      [] OTHER -> <<"?">>

\* lsoph/ui/emoji.py: one icon per upper-cased event type, "ERROR" among them.
DEFAULT_EMOJI == "(?)"
EVENT_EMOJI_MAP ==
    (<<"O","P","E","N">> :> "(open)") @@ (<<"R","E","A","D">> :> "(read)")
    @@ (<<"W","R","I","T","E">> :> "(write)") @@ (<<"C","L","O","S","E">> :> "(close)")
    @@ (<<"E","R","R","O","R">> :> "(error)")

\* EVENT_EMOJI_MAP.get(key, DEFAULT_EMOJI)
EmojiGet(key) ==
    IF key \in DOMAIN EVENT_EMOJI_MAP THEN EVENT_EMOJI_MAP[key] ELSE DEFAULT_EMOJI

\* Line 107.
EventTypeStr(event) == Upper(PyStrOf(GetOr(event.type, PyStr(<<"?">>))))

\* Line 108.
Success(event) == Truthy(GetOr(event.success, PyBool(TRUE)))

\* Emoji without the "if not success" branch of lines 112-113.
EmojiByTypeOnly(event) == EmojiGet(EventTypeStr(event))

\* Lines 111-115.
Emoji(event) ==
    IF ~Success(event) THEN EmojiGet(ErrorKey) ELSE EmojiGet(EventTypeStr(event))

\* Line 118.
EtypeText(event) == <<Emoji(event), " ">> \o EventTypeStr(event)

\* Lines 121-123.
ResultText(event) ==
    IF Success(event) THEN [plain |-> OkText, style |-> "green"]
    ELSE [plain |-> FailText, style |-> "red"]

(***************************************************************************)
(* Bytes and text conversions.                                             *)
(***************************************************************************)
\* bytes.decode(fs encoding, "surrogateescape"): an undecodable byte becomes
\* a lone surrogate.
DecodeSurrogateEscape(raw) ==
    [i \in 1..Len(raw) |-> IF raw[i] = InvalidByte THEN Surrogate ELSE raw[i].b]

\* str.encode("utf-8", "surrogateescape") (line 178): the inverse.
EncodeSurrogateEscape(t) ==
    [i \in 1..Len(t) |-> IF t[i] = Surrogate THEN InvalidByte ELSE Byte(t[i])]

\* os.fsdecode(*args).  Its signature is fsdecode(filename): a call with any
\* other number of positional arguments is a TypeError, and so is a filename
\* that is not str, bytes or os.PathLike.
FsDecode(args) ==
    IF Len(args) # 1 THEN [exc |-> "TypeError", text |-> <<>>]
    ELSE CASE args[1].kind = "bytes" ->
                [exc |-> "none", text |-> DecodeSurrogateEscape(args[1].raw)]
           [] args[1].kind = "str" -> [exc |-> "none", text |-> args[1].s]
           [] OTHER -> [exc |-> "TypeError", text |-> <<>>]

SurrogateEscapeArg == PyStr(<<"s","u","r","r","o","g","a","t","e","e","s","c","a","p","e">>)

SurrogateEscaped == <<"\\", "u", "d", "c", "8", "0">>

\* The characters repr() shows for the characters of a str: a lone surrogate
\* is written as its escape, any other character as itself.
EscapeText(t) ==
    IF \A i \in 1..Len(t) : t[i] # Surrogate THEN t
    ELSE LET before(i) == (i - 1) + 5 * Cardinality({j \in 1..(i - 1) : t[j] = Surrogate})
             at(p) == CHOOSE i \in 1..Len(t) :
                         before(i) < p /\ (i = Len(t) \/ p <= before(i + 1))
         IN  [p \in 1..before(Len(t) + 1) |->
                 IF t[at(p)] = Surrogate THEN SurrogateEscaped[p - before(at(p))]
                 ELSE t[at(p)]]

\* repr(v) for the values a details dict holds after filtering: a str or a
\* Text's plain str (quoted, with double quotes when it holds a single quote
\* and no double quote), an int, None, a bool.
Repr(v) ==
    CASE v.kind \in {"str", "text"} ->
            LET q == IF (\E i \in 1..Len(v.s) : v.s[i] = "'")
                        /\ ~(\E i \in 1..Len(v.s) : v.s[i] = "\"")
                     THEN "\"" ELSE "'"
            IN  <<q>> \o EscapeText(v.s) \o <<q>>
      [] v.kind = "int" -> (IF v.neg THEN <<"-">> ELSE <<>>) \o v.int
      [] v.kind = "none" -> <<"N", "o", "n", "e">>
      [] v.kind = "bool" -> IF v.b THEN <<"T", "r", "u", "e">>
                            ELSE <<"F", "a", "l", "s", "e">>

(***************************************************************************)
(* lsoph/util/short_path.py: short_path(path, max_length).                 *)
(***************************************************************************)
Ellipsis == "..."          \* the one-character ellipsis marker

\* PathCodec.decode: total on byte sequences.
PathDecode(raw) == DecodeSurrogateEscape(raw)

\* PathShortener.shorten(text, maxWidth).
Shorten(t, w) ==
    IF Len(t) <= w THEN t
    ELSE IF w < 2 THEN Rep(Ellipsis, w)
    ELSE LET prefix == ((w - 1) * 4) \div 10
             suffix == (w - 1) - prefix
         IN  SubSeq(t, 1, prefix) \o <<Ellipsis>>
             \o SubSeq(t, Len(t) - suffix + 1, Len(t))

short_path(raw, max_length) == Shorten(PathDecode(raw), max_length)

(***************************************************************************)
(* The details cell (lines 126-180).  A dict is the sequence of its        *)
(* entries [k, v] in insertion order.                                      *)
(***************************************************************************)
HasKey(items, k) == \E i \in 1..Len(items) : items[i].k = k

\* d.get(k): None when the key is missing.
DictGet(items, k) ==
    IF HasKey(items, k)
    THEN items[CHOOSE i \in 1..Len(items) : items[i].k = k].v
    ELSE PyNone

\* d[k] = v: a key already there keeps its place.
DictSet(items, k, v) ==
    IF HasKey(items, k)
    THEN [i \in 1..Len(items) |->
            IF items[i].k = k THEN [k |-> k, v |-> v] ELSE items[i]]
    ELSE Append(items, [k |-> k, v |-> v])

RECURSIVE FilterDetails(_, _)
\* Lines 129-146: the entries not excluded, bytes values decoded, added to acc.
FilterDetails(items, acc) ==
    IF items = <<>> THEN [exc |-> "none", items |-> acc]
    ELSE LET e == items[1]
         IN  IF e.k \in ExcludedKeys THEN FilterDetails(Tail(items), acc)
             ELSE IF e.v.kind = "bytes"
             THEN LET dec == FsDecode(<<e.v, SurrogateEscapeArg>>)
                  IN  IF dec.exc # "none" THEN [exc |-> dec.exc, items |-> acc]
                      ELSE FilterDetails(Tail(items), DictSet(acc, e.k, PyStr(dec.text)))
             ELSE FilterDetails(Tail(items), DictSet(acc, e.k, e.v))

RECURSIVE DecodePathKeys(_, _, _)
\* Lines 149-161: the path keys whose value is bytes, decoded and added to acc.
DecodePathKeys(keys, details_dict, acc) ==
    IF keys = <<>> THEN [exc |-> "none", items |-> acc]
    ELSE IF HasKey(details_dict, keys[1]) /\ DictGet(details_dict, keys[1]).kind = "bytes"
    THEN LET dec == FsDecode(<<DictGet(details_dict, keys[1]), SurrogateEscapeArg>>)
         IN  IF dec.exc # "none" THEN [exc |-> dec.exc, items |-> acc]
             ELSE DecodePathKeys(Tail(keys), details_dict,
                                 DictSet(acc, keys[1], PyStr(dec.text)))
    ELSE DecodePathKeys(Tail(keys), details_dict, acc)

\* AddErrorEntry without the "and not success" of line 164.
AddErrorEntryAnyOutcome(event, details_dict, filtered) ==
    LET error_name == DictGet(details_dict, ErrorNameKey)
    IN  IF Truthy(error_name)
        THEN DictSet(filtered, ErrorKey, RichText(error_name.s))
        ELSE filtered

\* Lines 163-165: the ERROR entry of a failed event with a truthy error_name.
AddErrorEntry(event, details_dict, filtered) ==
    LET error_name == DictGet(details_dict, ErrorNameKey)
    IN  IF Truthy(error_name) /\ ~Success(event)
        THEN DictSet(filtered, ErrorKey, RichText(error_name.s))
        ELSE filtered

\* Lines 167-175: "k=repr(v)" per entry, joined with ", ".
DetailsStr(filtered) ==
    JoinTexts([i \in 1..Len(filtered) |->
                  filtered[i].k \o <<"=">> \o Repr(filtered[i].v)],
              <<",", " ">>)

\* DetailsDisplay without the call of short_path.
DetailsDisplayUnshortened(details_str) ==
    PathDecode(EncodeSurrogateEscape(details_str))

\* Lines 177-179.
DetailsDisplay(details_str) ==
    short_path(EncodeSurrogateEscape(details_str), DetailsWidth)

\* Lines 126-180.  details.shape is "absent" (the default {} is used), "dict",
\* or "other" (a value without .items(), such as None).
DetailsCell(event) ==
    IF event.details.shape = "other"
    THEN [exc |-> "AttributeError", str |-> <<>>, text |-> <<>>]
    ELSE LET details_dict == event.details.items
             first == FilterDetails(details_dict, <<>>)
             second == DecodePathKeys(PathKeys, details_dict, first.items)
         IN  IF first.exc # "none"
             THEN [exc |-> first.exc, str |-> <<>>, text |-> <<>>]
             ELSE IF second.exc # "none"
             THEN [exc |-> second.exc, str |-> <<>>, text |-> <<>>]
             ELSE LET details_str ==
                          DetailsStr(AddErrorEntry(event, details_dict, second.items))
                  IN  [exc |-> "none", str |-> details_str,
                       text |-> DetailsDisplay(details_str)]

(***************************************************************************)
(* One iteration of the loop (lines 93-183): the row of one event, or the  *)
(* exception that leaves the loop.  warned: line 103 logged a warning.     *)
(***************************************************************************)
Cell(t) == [plain |-> t, style |-> ""]

FormatEvent(event, tz) ==
    IF event.shape # "dict"
    THEN [exc |-> "AttributeError", row |-> <<>>, warned |-> FALSE]
    ELSE LET ts == TimestampCell(event, tz)
             details == DetailsCell(event)
         IN  IF ts.exc # "none"
             THEN [exc |-> ts.exc, row |-> <<>>, warned |-> FALSE]
             ELSE IF details.exc # "none"
             THEN [exc |-> details.exc, row |-> <<>>, warned |-> ts.warned]
             ELSE [exc |-> "none",
                   row |-> <<Cell(ts.text), Cell(EtypeText(event)),
                             ResultText(event), Cell(details.text)>>,
                   warned |-> ts.warned]

(***************************************************************************)
(* The inputs explored.                                                    *)
(***************************************************************************)
LongText == Rep("a", LongLen)

TsValues ==
    { Absent,
      PyInt(FALSE, <<"0">>),
      PyFloat(FALSE, <<"1","7","0","0","0","0","0","0","0","0">>, <<"1","2","3","4","5","6">>),
      PyFloat(TRUE, <<"5">>, <<"5","0","0","0","0","0">>),
      PyFloat(FALSE, <<"1","0","0","0","0","0","0","0","0","0","0","0","0">>,
              <<"0","0","0","0","0","0">>),
      PyFloat(FALSE, <<"1","0","0","0","0","0","0","0","0","0","0","0","0","0","0","0","0","0","0","0","0">>,
              <<"0","0","0","0","0","0">>),
      PyStr(<<"a","b","c">>),
      PyNone }

TypeValues ==
    { Absent, PyStr(<<"r","e","a","d">>), PyStr(<<"e","r","r","o","r">>),
      PyStr(<<"c","h","m","o","d">>), PyStr(LongText) }

SuccessValues == { Absent, PyBool(TRUE), PyBool(FALSE), PyNone }

Entry(k, v) == [k |-> k, v |-> v]

DetailEntries ==
    { Entry(<<"f","d">>, PyInt(FALSE, <<"3">>)),
      Entry(<<"s","y","s","c","a","l","l">>, PyStr(<<"o","p","e","n","a","t">>)),
      Entry(<<"t","a","r","g","e","t","_","p","a","t","h">>,
            PyBytes(AsciiBytes(<<"/","t","m","p","/","a">>))),
      Entry(<<"t","a","r","g","e","t","_","p","a","t","h">>,
            PyBytes(AsciiBytes(<<"/","t","m","p","/">>) \o <<InvalidByte>>)),
      Entry(<<"t","a","r","g","e","t","_","p","a","t","h">>, PyStr(<<"/","t","m","p","/","a">>)),
      Entry(<<"d","a","t","a">>, PyBytes(AsciiBytes(<<"a","b">>))),
      Entry(ErrorNameKey, PyStr(<<"E","N","O","E","N","T">>)),
      Entry(ErrorNameKey, PyStr(<<>>)),
      Entry(ErrorNameKey, PyStr(LongText)) }

\* The dicts of at most MaxDetails entries (a dict holds a key once).
DetailsDicts ==
    { d \in UNION { [1..n -> DetailEntries] : n \in 0..MaxDetails } :
        \A i, j \in 1..Len(d) : i # j => d[i].k # d[j].k }

DetailsValues ==
    { [shape |-> "absent", items |-> <<>>], [shape |-> "other", items |-> <<>>] }
    \cup { [shape |-> "dict", items |-> d] : d \in DetailsDicts }

\* An object without .get() in the place of an event.
NotAMapping ==
    [shape |-> "other", ts |-> Absent, type |-> Absent, success |-> Absent,
     details |-> [shape |-> "absent", items |-> <<>>]]

AllEvents ==
    { NotAMapping }
    \cup [shape : {"dict"}, ts : TsValues, type : TypeValues,
          success : SuccessValues, details : DetailsValues]

Dict(ts, type, success, details) ==
    [shape |-> "dict", ts |-> ts, type |-> type, success |-> success,
     details |-> details]

\* The events of the histories longer than one event.
EventPool ==
    { Dict(PyFloat(FALSE, <<"1","7","0","0","0","0","0","0","0","0">>, <<"1","2","3","4","5","6">>),
           PyStr(<<"r","e","a","d">>), PyBool(TRUE),
           [shape |-> "dict", items |-> <<Entry(<<"f","d">>, PyInt(FALSE, <<"3">>))>>]),
      Dict(PyInt(FALSE, <<"0">>), PyStr(<<"o","p","e","n">>), PyBool(FALSE),
           [shape |-> "dict",
            items |-> <<Entry(ErrorNameKey, PyStr(<<"E","N","O","E","N","T">>))>>]),
      Dict(PyFloat(FALSE, <<"1","0","0","0","0","0","0","0","0","0","0","0","0">>,
                   <<"0","0","0","0","0","0">>),
           Absent, Absent, [shape |-> "absent", items |-> <<>>]),
      Dict(PyStr(<<"a","b","c">>), PyStr(<<"r","e","a","d">>), PyBool(TRUE),
           [shape |-> "absent", items |-> <<>>]),
      Dict(PyInt(FALSE, <<"0">>), PyStr(<<"r","e","a","d">>), PyBool(TRUE),
           [shape |-> "dict",
            items |-> <<Entry(<<"t","a","r","g","e","t","_","p","a","t","h">>,
                              PyBytes(AsciiBytes(<<"/","t","m","p","/">>) \o <<InvalidByte>>))>>]),
      NotAMapping }

Histories(pool, n) == UNION { [1..k -> pool] : k \in 0..n }

GoodPath == PyBytes(AsciiBytes(<<"/","t","m","p","/","a">>))

\* FileInfo without its history: a bytes path, a bytes path that is not
\* valid UTF-8, and a path that is no bytes at all.
FileInfos ==
    { [path |-> GoodPath, status |-> <<"o","p","e","n">>, is_open |-> TRUE],
      [path |-> GoodPath, status |-> <<"d","e","l","e","t","e","d">>, is_open |-> FALSE],
      [path |-> PyBytes(AsciiBytes(<<"/","t","m","p","/">>) \o <<InvalidByte>>),
       status |-> <<"e","r","r","o","r">>, is_open |-> FALSE],
      [path |-> PyNone, status |-> <<"c","l","o","s","e","d">>, is_open |-> FALSE] }

TzOffsets == {0, 19800}

WithHistory(fi, h) ==
    [path |-> fi.path, status |-> fi.status, is_open |-> fi.is_open,
     event_history |-> h]

(***************************************************************************)
(* State.                                                                  *)
(***************************************************************************)
VARIABLES
    file_info,      \* self.file_info
    tz,             \* the local time zone, seconds east of UTC
    pc,             \* "mount", "history", "except" or "done"
    idx,            \* the event the loop is at (0 before the loop)
    header,         \* what the #detail-header Static shows
    columns,        \* the DataTable's columns
    rows,           \* the DataTable's rows
    focused,        \* table.focus() was called
    log,            \* the records written to the "lsoph.ui.detail" logger
    notifications,  \* the calls of self.notify
    exc,            \* the exception the except clause caught ("none": none)
    escaped         \* the exception on_mount raised to its caller

vars == <<file_info, tz, pc, idx, header, columns, rows, focused, log,
          notifications, exc, escaped>>

history == file_info.event_history

Start ==
    /\ pc = "mount"
    /\ idx = 0
    /\ header = <<>>
    /\ columns = <<>>
    /\ rows = <<>>
    /\ focused = FALSE
    /\ log = <<>>
    /\ notifications = <<>>
    /\ exc = "none"
    /\ escaped = "none"

\* Histories of up to MaxHistory events of EventPool, every FileInfo.
Init ==
    /\ file_info \in { WithHistory(fi, h) :
                         fi \in FileInfos, h \in Histories(EventPool, MaxHistory) }
    /\ tz \in TzOffsets
    /\ Start

\* Histories of at most one event, the event any of AllEvents.
InitEvent ==
    /\ file_info \in { WithHistory(fi, h) :
                         fi \in {f \in FileInfos : f.is_open},
                         h \in Histories(AllEvents, 1) }
    /\ tz \in TzOffsets
    /\ Start

(***************************************************************************)
(* on_mount.                                                               *)
(***************************************************************************)
\* _create_header_text (lines 45-63).  short_path decodes byte sequences; given
\* a path that is none it raises here.  (Were it to return, the debug record
\* two statements later decodes the same path with os.fsdecode and raises the
\* same TypeError, so the except clause is entered either way.)
CreateHeaderText(fi) ==
    IF fi.path.kind # "bytes" THEN [exc |-> "TypeError", text |-> <<>>]
    ELSE [exc |-> "none",
          text |-> << [plain |-> HeaderLead, style |-> ""],
                      [plain |-> short_path(fi.path.raw, HeaderWidth), style |-> "bold"],
                      [plain |-> HeaderStatusLead, style |-> ""],
                      [plain |-> Upper(fi.status),
                       style |-> IF fi.status = <<"e","r","r","o","r">> THEN "bold red"
                                 ELSE IF fi.is_open THEN "bold green"
                                 ELSE IF fi.status = <<"d","e","l","e","t","e","d">>
                                      THEN "strike"
                                 ELSE ""] >>]

TableColumns ==
    << [key |-> "ts", width |-> TsColumnWidth],
       [key |-> "event", width |-> EventColumnWidth],
       [key |-> "result", width |-> ResultColumnWidth],
       [key |-> "details", width |-> 0] >>

LogRecord(level, line) == [level |-> level, line |-> line]

\* Lines 67-84: the header, the columns, the debug record.  The f-string of
\* the debug record decodes the path before log.debug is called.
Mount ==
    /\ pc = "mount"
    /\ LET hdr == CreateHeaderText(file_info)
           dbg == FsDecode(<<file_info.path>>)
       IN  IF hdr.exc # "none"
           THEN /\ exc' = hdr.exc
                /\ pc' = "except"
                /\ UNCHANGED <<header, columns, log>>
           ELSE /\ header' = hdr.text
                /\ columns' = TableColumns
                /\ IF dbg.exc # "none"
                   THEN /\ exc' = dbg.exc
                        /\ pc' = "except"
                        /\ UNCHANGED log
                   ELSE /\ log' = Append(log, LogRecord("DEBUG", 82))
                        /\ pc' = "history"
                        /\ UNCHANGED exc
    /\ UNCHANGED <<file_info, tz, idx, rows, focused, notifications, escaped>>

\* NoHistory that treats the empty history as an error.
NoHistoryAsError ==
    /\ pc = "history"
    /\ history = <<>>
    /\ exc' = "ValueError"
    /\ pc' = "except"
    /\ UNCHANGED <<file_info, tz, idx, header, columns, rows, focused, log,
                   notifications, escaped>>

\* Lines 86-90: the row of an empty history, and the return.
NoHistory ==
    /\ pc = "history"
    /\ history = <<>>
    /\ rows' = Append(rows, <<[plain |-> NoHistoryText, style |-> "dim"]>>)
    /\ pc' = "done"
    /\ UNCHANGED <<file_info, tz, idx, header, columns, focused, log,
                   notifications, exc, escaped>>

\* FormatRow that leaves out a row the table already holds.
FormatRowDeduplicating ==
    /\ pc = "history"
    /\ idx < Len(history)
    /\ LET r == FormatEvent(history[idx + 1], tz)
       IN  /\ idx' = idx + 1
           /\ log' = IF r.warned THEN Append(log, LogRecord("WARNING", 103)) ELSE log
           /\ IF r.exc = "none"
              THEN /\ rows' = IF \E i \in 1..Len(rows) : rows[i] = r.row
                              THEN rows ELSE Append(rows, r.row)
                   /\ UNCHANGED <<pc, exc>>
              ELSE /\ exc' = r.exc
                   /\ pc' = "except"
                   /\ UNCHANGED rows
    /\ UNCHANGED <<file_info, tz, header, columns, focused, notifications, escaped>>

\* Lines 93-183: one iteration of the loop.
FormatRow ==
    /\ pc = "history"
    /\ idx < Len(history)
    /\ LET r == FormatEvent(history[idx + 1], tz)
       IN  /\ idx' = idx + 1
           /\ log' = IF r.warned THEN Append(log, LogRecord("WARNING", 103)) ELSE log
           /\ IF r.exc = "none"
              THEN /\ rows' = Append(rows, r.row)
                   /\ UNCHANGED <<pc, exc>>
              ELSE /\ exc' = r.exc
                   /\ pc' = "except"
                   /\ UNCHANGED rows
    /\ UNCHANGED <<file_info, tz, header, columns, focused, notifications, escaped>>

\* Line 186: the loop is over.
Focus ==
    /\ pc = "history"
    /\ history # <<>>
    /\ idx = Len(history)
    /\ focused' = TRUE
    /\ pc' = "done"
    /\ UNCHANGED <<file_info, tz, idx, header, columns, rows, log,
                   notifications, exc, escaped>>

\* str(e): the message of the exception, one token named after its type.
ExcText(e) == <<e>>

FallbackRow(e) ==
    <<[plain |-> ErrorLoadingPrefix \o ExcText(e), style |-> "bold red"]>>

\* Recover without table.clear().
RecoverWithoutClear ==
    /\ pc = "except"
    /\ LET dec == FsDecode(<<file_info.path>>)
       IN  IF dec.exc # "none"
           THEN /\ escaped' = dec.exc
                /\ UNCHANGED <<log, rows, notifications>>
           ELSE /\ log' = Append(log, LogRecord("ERROR", 189))
                /\ rows' = Append(rows, FallbackRow(exc))
                /\ notifications' =
                       Append(notifications, [message |-> NotifyText, severity |-> "error"])
                /\ UNCHANGED escaped
    /\ pc' = "done"
    /\ UNCHANGED <<file_info, tz, idx, header, columns, focused, exc>>

\* Lines 188-198: the except clause.  The f-string of log.exception decodes
\* the path before anything is logged, outside the inner try; table.clear()
\* removes the rows and keeps the columns.
Recover ==
    /\ pc = "except"
    /\ LET dec == FsDecode(<<file_info.path>>)
       IN  IF dec.exc # "none"
           THEN /\ escaped' = dec.exc
                /\ UNCHANGED <<log, rows, notifications>>
           ELSE /\ log' = Append(log, LogRecord("ERROR", 189))
                /\ rows' = <<FallbackRow(exc)>>
                /\ notifications' =
                       Append(notifications, [message |-> NotifyText, severity |-> "error"])
                /\ UNCHANGED escaped
    /\ pc' = "done"
    /\ UNCHANGED <<file_info, tz, idx, header, columns, focused, exc>>

Next == Mount \/ NoHistory \/ FormatRow \/ Focus \/ Recover

Spec == Init /\ [][Next]_vars

SpecEvent == InitEvent /\ [][Next]_vars

(***************************************************************************)
(* Properties.                                                             *)
(***************************************************************************)
Done == pc = "done"

\* on_mount is over and event k raised while it was formatted.
RaisedAtEvent == Done /\ exc # "none" /\ idx >= 1

\* on_mount is over, the loop ran and nothing was raised.
BuiltFromEvents == Done /\ exc = "none" /\ history # <<>>

NoHistoryRow == <<[plain |-> NoHistoryText, style |-> "dim"]>>

ErrorEntryOf(name) == ErrorKey \o <<"=">> \o Repr(PyStr(name))

\* C1 as claimed: an event whose formatting raises yields one placeholder row
\* and every other event of the history still yields its own row.
C1_PerEventIsolation ==
    (Done /\ idx >= 1) =>
        /\ Len(rows) = Len(history)
        /\ \A k \in 1..Len(history) :
              IF FormatEvent(history[k], tz).exc # "none"
              THEN Len(rows[k]) = 1
              ELSE rows[k] = FormatEvent(history[k], tz).row

\* C1 as amended: when formatting the event at position k raises, the one
\* except clause of on_mount catches it; the build stops there, the rows
\* added before are removed, the table holds the fallback row alone and one
\* notification is sent.
C1_RaisingEventAbortsBuild ==
    RaisedAtEvent =>
        /\ exc = FormatEvent(history[idx], tz).exc
        /\ \A k \in 1..(idx - 1) : FormatEvent(history[k], tz).exc = "none"
        /\ rows = <<FallbackRow(exc)>>
        /\ Len(notifications) = 1
        /\ escaped = "none"

\* A history of three events whose second event raised: the row of the first
\* is gone and the third event was never formatted.
C1_Witness ==
    /\ RaisedAtEvent
    /\ Len(history) = 3
    /\ idx = 2
    /\ FormatEvent(history[3], tz).exc = "none"
    /\ rows = <<FallbackRow(exc)>>

\* C2: no exception leaves on_mount.
C2_NoFaultEscapes == escaped = "none"

\* C3: after an error the table holds the fallback row alone and exactly one
\* notification was sent; without an error no notification was sent.
C3_WholeTableRecovery ==
    Done =>
        IF exc # "none"
        THEN rows = <<FallbackRow(exc)>> /\ Len(notifications) = 1
        ELSE notifications = <<>>

\* C4: a history processed without an error yields one row per event, row i
\* the formatting of event i alone, in the order of the history, equal events
\* included.
C4_OrderPreserved ==
    BuiltFromEvents =>
        /\ Len(rows) = Len(history)
        /\ \A i \in 1..Len(history) : rows[i] = FormatEvent(history[i], tz).row

\* Three events, the first two equal and the third another one, three rows.
C4_Witness ==
    /\ BuiltFromEvents
    /\ Len(history) = 3
    /\ history[1] = history[2]
    /\ history[2] # history[3]
    /\ Len(rows) = 3
    /\ rows[1] = rows[2]
    /\ rows[2] # rows[3]

EmptyHistoryOutcome ==
    /\ rows = <<NoHistoryRow>>
    /\ idx = 0
    /\ \A i \in 1..Len(log) : log[i].level = "DEBUG"
    /\ notifications = <<>>
    /\ exc = "none"
    /\ escaped = "none"

TsAnomaly(v) ==
    \/ v.kind \in {"none", "str", "bytes"}
    \/ IsPositiveNumber(v) /\ FromTimestamp(v, tz).exc # "none"

\* C6: an event whose ts is not a number or is out of range still yields its
\* row, and the table build goes on.
C6_TimestampRecoveredLocally ==
    (Done /\ Len(history) = 1 /\ history[1].shape = "dict"
          /\ TsAnomaly(history[1].ts) /\ DetailsCell(history[1]).exc = "none") =>
        /\ exc = "none"
        /\ Len(rows) = 1
        /\ Len(rows[1]) = 4

\* The entries of a details dict that the two loops decode.
DecodedEntries(items) ==
    { i \in 1..Len(items) :
        /\ items[i].v.kind = "bytes"
        /\ \/ items[i].k \notin ExcludedKeys
           \/ \E j \in 1..Len(PathKeys) : PathKeys[j] = items[i].k }

\* C7: a bytes value under a path key or a key not excluded is decoded
\* without an exception, and the row shows key=decoded text.
C7_BytesDetailsDecoded ==
    (Done /\ Len(history) = 1 /\ history[1].shape = "dict"
          /\ TimestampCell(history[1], tz).exc = "none"
          /\ history[1].details.shape = "dict"
          /\ DecodedEntries(history[1].details.items) # {}) =>
        /\ exc = "none"
        /\ Len(rows) = 1
        /\ Len(rows[1]) = 4
        /\ \A i \in DecodedEntries(history[1].details.items) :
              LET e == history[1].details.items[i]
              IN  Contains(rows[1][4].plain,
                           e.k \o <<"=">> \o Repr(PyStr(DecodeSurrogateEscape(e.v.raw))))

\* on_mount is over and the table holds the row of the one event.
RowOfOneEvent == Done /\ exc = "none" /\ Len(history) = 1

\* The event is a failure: its success is there and is falsy.
Failed(event) ==
    event.success.kind # "absent" /\ ~Truthy(event.success)

ErrorNameOf(event) == DictGet(event.details.items, ErrorNameKey)

HasErrorName(event) ==
    ErrorNameOf(event).kind = "str" /\ ErrorNameOf(event).s # <<>>

\* C8 as claimed: the row of a failed event with error_name N reads FAIL and
\* its shortened details text holds ERROR='N'; the row of a successful event
\* holds no ERROR entry.
C8_FailureRendering ==
    RowOfOneEvent =>
        LET e == history[1]
        IN  /\ (Failed(e) /\ HasErrorName(e)) =>
                  /\ rows[1][3].plain = FailText
                  /\ Contains(rows[1][4].plain, ErrorEntryOf(ErrorNameOf(e).s))
            /\ ~Failed(e) => ~Contains(rows[1][4].plain, ErrorKey \o <<"=">>)

\* C8 as amended: the row of a failed event with error_name N reads FAIL and
\* the joined details text holds ERROR='N'; the shortened text shown holds it
\* whenever the joined text is within the width of 100, which leaves it as
\* it is; the row of a successful event reads OK and holds no ERROR entry.
C8_FailureRenderingWithinWidth ==
    RowOfOneEvent =>
        LET e == history[1]
            joined == DetailsCell(e).str
        IN  /\ (Failed(e) /\ HasErrorName(e)) =>
                  /\ rows[1][3].plain = FailText
                  /\ Contains(joined, ErrorEntryOf(ErrorNameOf(e).s))
                  /\ Len(joined) <= DetailsWidth =>
                        Contains(rows[1][4].plain, ErrorEntryOf(ErrorNameOf(e).s))
            /\ ~Failed(e) =>
                  /\ rows[1][3].plain = OkText
                  /\ ~Contains(joined, ErrorKey \o <<"=">>)
                  /\ ~Contains(rows[1][4].plain, ErrorKey \o <<"=">>)

\* A failed event of unregistered type with error_name ENOENT and another
\* entry, its row showing FAIL and ERROR='ENOENT'.
C8_Witness ==
    /\ RowOfOneEvent
    /\ Failed(history[1])
    /\ ErrorNameOf(history[1]).s = <<"E","N","O","E","N","T">>
    /\ Len(history[1].details.items) = 2
    /\ history[1].type = PyStr(<<"c","h","m","o","d">>)
    /\ rows[1][3].plain = FailText
    /\ Contains(rows[1][4].plain, ErrorEntryOf(<<"E","N","O","E","N","T">>))

\* C9 as claimed: every cell of an event's row has a width bounded whatever
\* the event: the widths of the columns for timestamp, type and outcome,
\* and 100 for the details.
C9_AllFieldsBounded ==
    RowOfOneEvent =>
        /\ Len(rows[1][1].plain) <= TsColumnWidth
        /\ Len(rows[1][2].plain) <= EventColumnWidth
        /\ Len(rows[1][3].plain) <= ResultColumnWidth
        /\ Len(rows[1][4].plain) <= DetailsWidth

\* C9 as amended: the details text is at most 100 characters and the outcome
\* text at most 4; the timestamp text is 12 characters when ts is a positive
\* number that converts, and otherwise as long as the three-decimal rendering
\* of ts; the type text is the type string and two characters more.
C9_DetailsAndOutcomeBounded ==
    RowOfOneEvent =>
        LET e == history[1]
            ts_raw == GetOr(e.ts, PyInt(FALSE, <<"0">>))
        IN  /\ Len(rows[1][4].plain) <= DetailsWidth
            /\ Len(rows[1][3].plain) <= Len(FailText)
            /\ Len(rows[1][2].plain) = Len(PyStrOf(GetOr(e.type, PyStr(<<"?">>)))) + 2
            /\ Len(rows[1][1].plain) =
                  IF IsPositiveNumber(ts_raw) /\ FromTimestamp(ts_raw, tz).exc = "none"
                  THEN TsColumnWidth
                  ELSE Len(Format3f(ts_raw).text)

\* An event whose joined details are longer than 100 characters and whose
\* type text and timestamp text are wider than their columns.
C9_Witness ==
    /\ RowOfOneEvent
    /\ Len(DetailsCell(history[1]).str) > DetailsWidth
    /\ Len(rows[1][4].plain) = DetailsWidth
    /\ Len(rows[1][2].plain) > EventColumnWidth
    /\ Len(rows[1][1].plain) > TsColumnWidth

\* The icon the classification rule gives an event.
RuleIcon(event) ==
    LET up == Upper(PyStrOf(GetOr(event.type, PyStr(<<"?">>))))
    IN  IF Failed(event) THEN EmojiGet(ErrorKey)
        ELSE IF up \in DOMAIN EVENT_EMOJI_MAP THEN EVENT_EMOJI_MAP[up]
        ELSE DEFAULT_EMOJI

TypeTextByRule(event) ==
    <<RuleIcon(event), " ">> \o Upper(PyStrOf(GetOr(event.type, PyStr(<<"?">>))))

\* C10 as claimed: the type text is the icon of the rule, a space and the
\* upper-cased type, and the failure icon is on exactly the rows that read
\* FAIL.
C10_Classification ==
    RowOfOneEvent =>
        /\ rows[1][2].plain = TypeTextByRule(history[1])
        /\ rows[1][2].plain[1] = EmojiGet(ErrorKey) <=> rows[1][3].plain = FailText

\* C10 as amended: the type text is the icon of the rule, a space and the
\* upper-cased type; a row reads FAIL exactly when success is there and
\* falsy; every row that reads FAIL has the failure icon, and so has a row
\* that reads OK when its upper-cased type is ERROR, the key the failure icon
\* is registered under.
C10_ClassificationErrorType ==
    RowOfOneEvent =>
        /\ rows[1][2].plain = TypeTextByRule(history[1])
        /\ rows[1][3].plain = FailText <=> Failed(history[1])
        /\ rows[1][3].plain = FailText => rows[1][2].plain[1] = EmojiGet(ErrorKey)
        /\ (/\ rows[1][3].plain = OkText
            /\ SubSeq(rows[1][2].plain, 3, Len(rows[1][2].plain)) = ErrorKey) =>
              rows[1][2].plain[1] = EmojiGet(ErrorKey)

\* A successful event of type "error": its row reads OK under the failure icon.
C10_Witness ==
    /\ RowOfOneEvent
    /\ history[1].type = PyStr(<<"e","r","r","o","r">>)
    /\ ~Failed(history[1])
    /\ rows[1][3].plain = OkText
    /\ rows[1][2].plain = <<EmojiGet(ErrorKey), " ", "E", "R", "R", "O", "R">>

=============================================================================
